---- MODULE Spec2Model ----
(***************************************************************************)
(* A model of app.py: the extractive summarizer (split_sentences,          *)
(* summarize_text), the synonym paraphraser (paraphrase_text,              *)
(* synonym_for) and the two POST handlers (api_summarize, api_paraphrase). *)
(*                                                                         *)
(* A Python str is a sequence of one-character strings.  A float that the  *)
(* code computes from integers by +, / and ** 0.5 is kept exact: a         *)
(* rational is a record [n, d] with d > 0, and a sentence score is the     *)
(* pair (sum, len) standing for sum / sqrt(len).                           *)
(***************************************************************************)
EXTENDS Integers, Sequences, FiniteSets, TLC

(***************************************************************************)
(* Characters and the str methods the code calls                           *)
(***************************************************************************)
LowerLetters ==
  <<"a","b","c","d","e","f","g","h","i","j","k","l","m",
    "n","o","p","q","r","s","t","u","v","w","x","y","z">>

UpperLetters ==
  <<"A","B","C","D","E","F","G","H","I","J","K","L","M",
    "N","O","P","Q","R","S","T","U","V","W","X","Y","Z">>

Digits == {"0","1","2","3","4","5","6","7","8","9"}

Range(f) == {f[i] : i \in DOMAIN f}

\* c.isupper() for a single character
IsUpper(c) == c \in Range(UpperLetters)

\* the class \w of re (ASCII part): letters, digits and the underscore
IsWordChar(c) == c \in Range(LowerLetters) \cup Range(UpperLetters) \cup Digits \cup {"_"}

\* the class \s of re
IsSpace(c) == c \in {" ", "\t", "\n", "\r", "\f"}

\* the class [.!?] of the sentence splitter
IsTerminator(c) == c \in {".", "!", "?"}

LowerChar(c) ==
  IF IsUpper(c) THEN LowerLetters[CHOOSE i \in DOMAIN UpperLetters : UpperLetters[i] = c]
  ELSE c

UpperChar(c) ==
  IF c \in Range(LowerLetters)
  THEN UpperLetters[CHOOSE i \in DOMAIN LowerLetters : LowerLetters[i] = c]
  ELSE c

\* str.lower()
Lower(s) == [i \in DOMAIN s |-> LowerChar(s[i])]

\* str.capitalize(): the first character upper-cased, the rest lower-cased
Capitalize(s) == [i \in DOMAIN s |-> IF i = 1 THEN UpperChar(s[i]) ELSE LowerChar(s[i])]

RECURSIVE LStrip(_)
LStrip(s) == IF s # <<>> /\ IsSpace(Head(s)) THEN LStrip(Tail(s)) ELSE s

RECURSIVE RStrip(_)
RStrip(s) ==
  IF s # <<>> /\ IsSpace(s[Len(s)]) THEN RStrip(SubSeq(s, 1, Len(s) - 1)) ELSE s

\* str.strip()
Strip(s) == RStrip(LStrip(s))

\* sep.join(parts)
RECURSIVE Join(_, _)
Join(sep, parts) ==
  IF parts = <<>> THEN <<>>
  ELSE IF Len(parts) = 1 THEN parts[1]
  ELSE parts[1] \o sep \o Join(sep, Tail(parts))

\* [x for x in seq if x in keep]
RECURSIVE FilterIn(_, _)
FilterIn(seq, keep) ==
  IF seq = <<>> THEN <<>>
  ELSE IF Head(seq) \in keep THEN <<Head(seq)>> \o FilterIn(Tail(seq), keep)
  ELSE FilterIn(Tail(seq), keep)

(***************************************************************************)
(* The regular expressions                                                 *)
(***************************************************************************)
\* the end of the run of characters of one class that starts at i
RECURSIVE RunEnd(_, _, _)
RunEnd(s, i, word) ==
  IF i < Len(s) /\ IsWordChar(s[i + 1]) = word THEN RunEnd(s, i + 1, word) ELSE i

\* re.findall(r"\w+|\W+", s): the maximal runs of word and of non-word characters
RECURSIVE TokensFrom(_, _)
TokensFrom(s, i) ==
  IF i > Len(s) THEN <<>>
  ELSE LET j == RunEnd(s, i, IsWordChar(s[i]))
       IN  <<SubSeq(s, i, j)>> \o TokensFrom(s, j + 1)

Tokenize(s) == TokensFrom(s, 1)

\* re.match(r'^\w+$', t)
IsWord(t) == t # <<>> /\ \A i \in DOMAIN t : IsWordChar(t[i])

RECURSIVE SelectWords(_)
SelectWords(toks) ==
  IF toks = <<>> THEN <<>>
  ELSE IF IsWord(Head(toks)) THEN <<Head(toks)>> \o SelectWords(Tail(toks))
  ELSE SelectWords(Tail(toks))

\* re.findall(r'\w+', s)
FindWords(s) == SelectWords(Tokenize(s))

RECURSIVE SpaceEnd(_, _)
SpaceEnd(s, i) == IF i < Len(s) /\ IsSpace(s[i + 1]) THEN SpaceEnd(s, i + 1) ELSE i

\* re.split(r'(?<=[.!?])\s+', s) from position i on, cur being the piece so far
RECURSIVE SplitFrom(_, _, _)
SplitFrom(s, i, cur) ==
  IF i > Len(s) THEN <<cur>>
  ELSE IF IsSpace(s[i]) /\ i > 1 /\ IsTerminator(s[i - 1])
       THEN <<cur>> \o SplitFrom(s, SpaceEnd(s, i) + 1, <<>>)
       ELSE SplitFrom(s, i + 1, Append(cur, s[i]))

RECURSIVE StripNonEmpty(_)
StripNonEmpty(parts) ==
  IF parts = <<>> THEN <<>>
  ELSE IF Strip(Head(parts)) # <<>>
       THEN <<Strip(Head(parts))>> \o StripNonEmpty(Tail(parts))
       ELSE StripNonEmpty(Tail(parts))

split_sentences(text) == StripNonEmpty(SplitFrom(Strip(text), 1, <<>>))

(***************************************************************************)
(* The module's tables                                                     *)
(***************************************************************************)
StopWordList ==
  {
    <<"t","h","e">>, <<"a","n","d">>, <<"i","s">>, <<"i","n">>, <<"i","t">>, <<"o","f">>,
    <<"t","o">>, <<"a">>, <<"a","n">>, <<"t","h","a","t">>, <<"t","h","i","s">>, <<"o","n">>,
    <<"f","o","r">>, <<"w","i","t","h">>, <<"a","s">>, <<"a","r","e">>, <<"w","a","s">>,
    <<"w","e","r","e">>, <<"b","y">>, <<"b","e">>, <<"o","r">>, <<"f","r","o","m">>,
    <<"a","t">>, <<"w","h","i","c","h">>, <<"b","u","t">>, <<"n","o","t">>, <<"h","a","v","e">>,
    <<"h","a","s">>, <<"h","a","d">>, <<"t","h","e","y">>, <<"y","o","u">>, <<"w","e">>,
    <<"h","e">>, <<"s","h","e">>, <<"h","i","s">>, <<"h","e","r">>
  }

\* FALLBACK_SYNS as (key, list of synonyms) pairs
FallbackSynTable ==
  {
    <<<<"g","o","o","d">>, <<<<"g","r","e","a","t">>, <<"n","i","c","e">>, <<"e","x","c","e","l","l","e","n","t">>, <<"s","o","l","i","d">>>>>>,
    <<<<"b","a","d">>, <<<<"p","o","o","r">>, <<"s","u","b","p","a","r">>, <<"w","e","a","k">>>>>>,
    <<<<"i","m","p","o","r","t","a","n","t">>, <<<<"c","r","u","c","i","a","l">>, <<"v","i","t","a","l">>, <<"k","e","y">>>>>>,
    <<<<"u","s","e">>, <<<<"u","t","i","l","i","z","e">>, <<"e","m","p","l","o","y">>, <<"a","p","p","l","y">>>>>>,
    <<<<"h","e","l","p">>, <<<<"a","s","s","i","s","t">>, <<"a","i","d">>, <<"s","u","p","p","o","r","t">>>>>>,
    <<<<"s","h","o","w">>, <<<<"d","i","s","p","l","a","y">>, <<"p","r","e","s","e","n","t">>, <<"r","e","v","e","a","l">>>>>>,
    <<<<"c","h","a","n","g","e">>, <<<<"m","o","d","i","f","y">>, <<"a","l","t","e","r">>, <<"t","r","a","n","s","f","o","r","m">>>>>>,
    <<<<"m","a","k","e">>, <<<<"c","r","e","a","t","e">>, <<"p","r","o","d","u","c","e">>, <<"b","u","i","l","d">>>>>>,
    <<<<"n","e","e","d">>, <<<<"r","e","q","u","i","r","e">>, <<"n","e","c","e","s","s","i","t","a","t","e">>>>>>,
    <<<<"f","i","n","d">>, <<<<"d","i","s","c","o","v","e","r">>, <<"l","o","c","a","t","e">>>>>>,
    <<<<"g","e","t">>, <<<<"o","b","t","a","i","n">>, <<"a","c","q","u","i","r","e">>>>>>,
    <<<<"b","i","g">>, <<<<"l","a","r","g","e">>, <<"s","u","b","s","t","a","n","t","i","a","l">>, <<"c","o","n","s","i","d","e","r","a","b","l","e">>>>>>,
    <<<<"s","m","a","l","l">>, <<<<"t","i","n","y">>, <<"c","o","m","p","a","c","t">>, <<"m","i","n","o","r">>>>>>,
    <<<<"s","t","a","r","t">>, <<<<"b","e","g","i","n">>, <<"c","o","m","m","e","n","c","e">>, <<"i","n","i","t","i","a","t","e">>>>>>
  }

FallbackSynDict ==
  [w \in {p[1] : p \in FallbackSynTable} |->
     (CHOOSE p \in FallbackSynTable : p[1] = w)[2]]

(***************************************************************************)
(* Exact arithmetic for the floats of summarize_text                       *)
(***************************************************************************)
RECURSIVE GCD(_, _)
GCD(a, b) == IF b = 0 THEN a ELSE GCD(b, a % b)

Abs(a) == IF a < 0 THEN -a ELSE a

\* the rational n / d, d > 0, in lowest terms
Rat(n, d) == LET g == GCD(Abs(n), d) IN [n |-> n \div g, d |-> d \div g]

Zero == [n |-> 0, d |-> 1]

RatAdd(a, b) == Rat(a.n * b.d + b.n * a.d, a.d * b.d)

RatLess(a, b) == a.n * b.d < b.n * a.d

\* a finite float, and the float nan, which float("nan") yields
Finite(n, d) == [fin |-> TRUE, n |-> Rat(n, d).n, d |-> Rat(n, d).d]

NaN == [fin |-> FALSE, n |-> 0, d |-> 1]

\* r < x for floats; every comparison with nan is False
FloatLess(r, x) == r.fin /\ x.fin /\ RatLess(r, x)

\* 0.2 * x
FifthOf(x) == IF x.fin THEN Finite(x.n, 5 * x.d) ELSE NaN

Max(a, b) == IF a >= b THEN a ELSE b

Min(a, b) == IF a <= b THEN a ELSE b

\* int(math.ceil(n * ratio)) for a finite ratio
CeilTimes(n, ratio) == -((-(n * ratio.n)) \div ratio.d)

(***************************************************************************)
(* summarize_text                                                          *)
(***************************************************************************)
\* lines 58-61: the counting loop; freqs is the dict built so far
RECURSIVE CountWords(_, _, _)
CountWords(words, freqs, stop) ==
  IF words = <<>> THEN freqs
  ELSE LET w == Head(words)
       IN  IF w \in stop THEN CountWords(Tail(words), freqs, stop)
           ELSE CountWords(Tail(words),
                           IF w \in DOMAIN freqs
                           THEN [freqs EXCEPT ![w] = @ + 1]
                           ELSE freqs @@ (w :> 1),
                           stop)

MaxValue(freqs) ==
  CHOOSE m \in Range(freqs) : \A v \in Range(freqs) : v <= m

RECURSIVE SumValues(_, _)
SumValues(freqs, keys) ==
  IF keys = {} THEN 0
  ELSE LET w == CHOOSE w \in keys : TRUE
       IN  freqs[w] + SumValues(freqs, keys \ {w})

\* Normalize dividing by the number of counted words instead of the largest count
NormalizeByTotal(freqs) ==
  IF DOMAIN freqs = {} THEN freqs
  ELSE [w \in DOMAIN freqs |-> Rat(freqs[w], SumValues(freqs, DOMAIN freqs))]

\* lines 64-67: every count divided by the largest count
Normalize(freqs) ==
  IF DOMAIN freqs = {} THEN freqs
  ELSE LET maxf == MaxValue(freqs)
       IN  [w \in DOMAIN freqs |-> Rat(freqs[w], maxf)]

\* lines 57-67
WordFreqs(text, stop) == Normalize(CountWords(FindWords(Lower(text)), <<>>, stop))

\* freqs.get(w, 0)
FreqGet(freqs, w) == IF w \in DOMAIN freqs THEN freqs[w] ELSE Zero

\* lines 73-75: the sum of the words' frequencies
RECURSIVE SumFreqs(_, _)
SumFreqs(s_words, freqs) ==
  IF s_words = <<>> THEN Zero
  ELSE RatAdd(FreqGet(freqs, Head(s_words)), SumFreqs(Tail(s_words), freqs))

\* Penalize dividing by the number of words instead of its square root
PenalizeByLength(sum, len) ==
  IF len > 0 THEN [sum |-> sum, root |-> len * len] ELSE [sum |-> Zero, root |-> 1]

\* line 77: score / (len(s_words) ** 0.5) if s_words else 0.
\* The record [sum, root] stands for the float sum / sqrt(root).
Penalize(sum, len) ==
  IF len > 0 THEN [sum |-> sum, root |-> len] ELSE [sum |-> Zero, root |-> 1]

\* lines 72-77: the score of one sentence
SentenceScore(s, freqs) ==
  LET s_words == FindWords(Lower(s))
  IN  Penalize(SumFreqs(s_words, freqs), Len(s_words))

\* a < b for two scores: both are >= 0, so the squares are compared
ScoreLess(a, b) ==
  a.sum.n * a.sum.n * b.sum.d * b.sum.d * b.root
    < b.sum.n * b.sum.n * a.sum.d * a.sum.d * a.root

ScoreEq(a, b) == ~ScoreLess(a, b) /\ ~ScoreLess(b, a)

\* lines 70-78: the list of (sentence, score) pairs
SentScores(sentences, freqs) ==
  [i \in DOMAIN sentences |-> <<sentences[i], SentenceScore(sentences[i], freqs)>>]

\* where a stable descending sort puts e in an already sorted list: after
\* every pair whose score is not smaller
RECURSIVE InsertDesc(_, _)
InsertDesc(sorted, e) ==
  IF sorted = <<>> THEN <<e>>
  ELSE IF ScoreLess(Head(sorted)[2], e[2]) THEN <<e>> \o sorted
  ELSE <<Head(sorted)>> \o InsertDesc(Tail(sorted), e)

\* sorted(pairs, key=lambda x: x[1], reverse=True): stable
RECURSIVE SortedDesc(_)
SortedDesc(pairs) ==
  IF pairs = <<>> THEN <<>>
  ELSE InsertDesc(SortedDesc(SubSeq(pairs, 1, Len(pairs) - 1)), pairs[Len(pairs)])

\* seq[:k], a negative k counting from the end
SliceTo(seq, k) ==
  IF k >= 0 THEN SubSeq(seq, 1, Min(k, Len(seq)))
  ELSE SubSeq(seq, 1, Max(0, Len(seq) + k))

\* lines 81-82
KeepCount(n, ratio, min_sentences) == Min(Max(min_sentences, CeilTimes(n, ratio)), n)

\* PickTop returning the k best as the sort left them, not in text order
PickTopScoreOrder(sentences, sent_scores, k) ==
  LET top_sentences == SliceTo(SortedDesc(sent_scores), k)
  IN  [i \in DOMAIN top_sentences |-> top_sentences[i][1]]

\* lines 85-87: the sentences whose text is the text of one of the k best
PickTop(sentences, sent_scores, k) ==
  LET top_sentences == SliceTo(SortedDesc(sent_scores), k)
      chosen        == {p[1] : p \in Range(top_sentences)}
  IN  FilterIn(sentences, chosen)

NoScores == <<>>

\* summarize_text(text, ratio, min_sentences) with the global STOPWORDS: its
\* locals when it returns or raises.  math.ceil raises on nan.
summarize_text(text, ratio, min_sentences, stop) ==
  LET sentences == split_sentences(text)
      freqs     == WordFreqs(text, stop)
      scores    == SentScores(sentences, freqs)
  IN  IF Len(sentences) <= min_sentences
      THEN [raised |-> FALSE, early |-> TRUE, sentences |-> sentences,
            freqs |-> <<>>, sent_scores |-> NoScores, k |-> 0, ret |-> sentences]
      ELSE IF ~ratio.fin
      THEN [raised |-> TRUE, early |-> FALSE, sentences |-> sentences,
            freqs |-> freqs, sent_scores |-> scores, k |-> 0, ret |-> <<>>]
      ELSE LET k == KeepCount(Len(sentences), ratio, min_sentences)
           IN  [raised |-> FALSE, early |-> FALSE, sentences |-> sentences,
                freqs |-> freqs, sent_scores |-> scores, k |-> k,
                ret |-> PickTop(sentences, scores, k)]

(***************************************************************************)
(* synonym_for and paraphrase_text                                         *)
(***************************************************************************)
\* Names the WordNet database may hold as lemma names, once '_' is replaced
\* by ' ': a plain word and a two-word collocation.
WnLemmaNames == { <<"o","k">>, <<"a","t"," ","a","l","l">> }

\* lines 123-140: what the WordNet branch can return for word.  The loop
\* returns a name that differs from word and holds no space; failing that,
\* line 134 returns the first lemma of the first synset as it is.
WordNetResults(word) ==
  LET passes(name) == Lower(name) # word /\ " " \notin Range(name)
  IN  {name \in WnLemmaNames : passes(name)}
        \cup {name \in WnLemmaNames : ~passes(name)}

EndsWithIng(word) ==
  Len(word) >= 3 /\ SubSeq(word, Len(word) - 2, Len(word)) = <<"i","n","g">>

\* lines 143-148: random.choice over the thesaurus entry, the -ing cut, or
\* the word itself
FallbackResults(word, syns) ==
  IF Lower(word) \in DOMAIN syns THEN Range(syns[Lower(word)])
  ELSE IF EndsWithIng(word) /\ Len(word) > 4 THEN {SubSeq(word, 1, Len(word) - 3)}
  ELSE {word}

\* synonym_for(word): every value it can return.  With USE_NLTK the lookup
\* may find nothing or raise, and the code falls through to the thesaurus.
synonym_for(word, syns, use_nltk) ==
  (IF use_nltk THEN WordNetResults(word) ELSE {}) \cup FallbackResults(word, syns)

\* values random.random() may return, in [0, 1)
RandomValues == {Finite(0, 1), Finite(1, 10), Finite(1, 2), Finite(9, 10)}

\* lines 104-108: the replacement emitted for word token t
Replacement(t, candidate) ==
  IF IsUpper(t[1]) THEN Capitalize(candidate) ELSE candidate

\* lines 100-112 for one token: every (token, selected, candidate, emitted)
\* the loop body can produce
ParaphraseToken(t, strength, syns, use_nltk) ==
  IF IsWord(t)
  THEN {[t |-> t, selected |-> TRUE, candidate |-> c, emitted |-> Replacement(t, c)] :
          c \in {c \in synonym_for(Lower(t), syns, use_nltk) :
                   \E r \in RandomValues : FloatLess(r, strength)}}
       \cup {[t |-> t, selected |-> FALSE, candidate |-> t, emitted |-> t] :
               r \in {r \in RandomValues : ~FloatLess(r, strength)}}
  ELSE {[t |-> t, selected |-> FALSE, candidate |-> t, emitted |-> t]}

\* the token loop without its last else branch: non-word tokens are dropped
RECURSIVE ParaphraseTokensWordsOnly(_, _, _, _)
ParaphraseTokensWordsOnly(tokens, strength, syns, use_nltk) ==
  IF tokens = <<>> THEN {<<>>}
  ELSE IF ~IsWord(Head(tokens))
  THEN ParaphraseTokensWordsOnly(Tail(tokens), strength, syns, use_nltk)
  ELSE {<<h>> \o rest :
          h \in ParaphraseToken(Head(tokens), strength, syns, use_nltk),
          rest \in ParaphraseTokensWordsOnly(Tail(tokens), strength, syns, use_nltk)}

\* lines 99-112: every trace of the token loop over tokens
RECURSIVE ParaphraseTokens(_, _, _, _)
ParaphraseTokens(tokens, strength, syns, use_nltk) ==
  IF tokens = <<>> THEN {<<>>}
  ELSE {<<h>> \o rest :
          h \in ParaphraseToken(Head(tokens), strength, syns, use_nltk),
          rest \in ParaphraseTokens(Tail(tokens), strength, syns, use_nltk)}

\* lines 97-114: every list of per-sentence traces
RECURSIVE ParaphraseSentences(_, _, _, _)
ParaphraseSentences(sentences, strength, syns, use_nltk) ==
  IF sentences = <<>> THEN {<<>>}
  ELSE {<<h>> \o rest :
          h \in ParaphraseTokens(Tokenize(Head(sentences)), strength, syns, use_nltk),
          rest \in ParaphraseSentences(Tail(sentences), strength, syns, use_nltk)}

\* "".join(new_tokens)
RECURSIVE Concat(_)
Concat(parts) == IF parts = <<>> THEN <<>> ELSE Head(parts) \o Concat(Tail(parts))

NewSentence(trace) == Concat([i \in DOMAIN trace |-> trace[i].emitted])

\* the orders random.shuffle can leave a list of n elements in
Orders(n) == {p \in [1..n -> 1..n] : \A i, j \in 1..n : p[i] = p[j] => i = j}

Identity(n) == [i \in 1..n |-> i]

\* ShuffleOrders with <= for the < of line 117
ShuffleOrdersInclusive(n, strength) ==
  {Identity(n)} \cup
  (IF n > 1 /\ \E r \in RandomValues : ~FloatLess(FifthOf(strength), r) /\ strength.fin
   THEN Orders(n) ELSE {})

\* lines 117-118: the orders the list can be returned in
ShuffleOrders(n, strength) ==
  {Identity(n)} \cup
  (IF n > 1 /\ \E r \in RandomValues : FloatLess(r, FifthOf(strength))
   THEN Orders(n) ELSE {})

\* paraphrase_text(text, strength): every outcome, with its locals
paraphrase_text(text, strength, syns, use_nltk) ==
  LET sentences == split_sentences(text)
  IN  {[sentences   |-> sentences,
        traces      |-> tr,
        paraphrased |-> [i \in DOMAIN tr |-> NewSentence(tr[i])],
        order       |-> p,
        ret         |-> Join(<<" ">>, [i \in DOMAIN tr |-> NewSentence(tr[p[i]])])] :
         tr \in ParaphraseSentences(sentences, strength, syns, use_nltk),
         p \in ShuffleOrders(Len(sentences), strength)}

(***************************************************************************)
(* State                                                                   *)
(***************************************************************************)
VARIABLES
  STOPWORDS,      \* the module global STOPWORDS
  FALLBACK_SYNS,  \* the module global FALLBACK_SYNS
  USE_NLTK,       \* the module global USE_NLTK
  pc,             \* where the program is
  req,            \* the HTTP request being handled
  resp,           \* the HTTP response of the handler
  call,           \* the arguments of the last summarize_text / paraphrase_text call
  out,            \* the locals and the return value of that call
  earlier         \* an earlier summarize_text call that is remembered, if any

vars == <<STOPWORDS, FALLBACK_SYNS, USE_NLTK, pc, req, resp, call, out, earlier>>

globals == <<STOPWORDS, FALLBACK_SYNS, USE_NLTK>>

NoRequest == [route |-> "none"]

NoResponse == [status |-> 0]

NoCall == [fn |-> "none"]

NoOut == [fn |-> "none"]

(***************************************************************************)
(* Inputs                                                                  *)
(***************************************************************************)
MaxRawLen == 4

MaxSentences == 3

\* every sequence over S of length at most n
RECURSIVE SeqsUpTo(_, _)
SeqsUpTo(S, n) ==
  IF n = 0 THEN {<<>>}
  ELSE LET prev == SeqsUpTo(S, n - 1)
       IN  prev \cup {Append(q, x) : q \in {p \in prev : Len(p) = n - 1}, x \in S}

RawAlphabet == {"x", "X", "a", ".", " "}

\* every string over RawAlphabet of at most MaxRawLen characters
RawTexts == SeqsUpTo(RawAlphabet, MaxRawLen)

\* "x.", "X.", "y y.", "x y!", "a x.", "y?"
SentenceVocab ==
  { <<"x",".">>, <<"X",".">>, <<"y"," ","y",".">>, <<"x"," ","y","!">>,
    <<"a"," ","x",".">>, <<"y","?">> }

\* at most MaxSentences sentences of SentenceVocab, a space between them
SentenceTexts == {Join(<<" ">>, q) : q \in SeqsUpTo(SentenceVocab, MaxSentences)}

SummarizeTexts == RawTexts \cup SentenceTexts

Ratios == {Finite(0, 1), Finite(3, 10), Finite(1, 1), Finite(-1, 2), NaN}

MinSentences == {-1, 0, 1, 2}

(***************************************************************************)
(* summarize_text as a program of its own: one call on drawn arguments     *)
(***************************************************************************)
InitSum ==
  /\ STOPWORDS = StopWordList
  /\ FALLBACK_SYNS = FallbackSynDict
  /\ USE_NLTK = FALSE
  /\ pc = "call"
  /\ req = NoRequest
  /\ resp = NoResponse
  /\ \E text \in SummarizeTexts, ratio \in Ratios, min_sentences \in MinSentences :
       call = [fn |-> "summarize_text", text |-> text, ratio |-> ratio,
               min_sentences |-> min_sentences]
  /\ out = NoOut
  /\ earlier = <<>>

SummarizeCall ==
  /\ pc = "call"
  /\ call.fn = "summarize_text"
  /\ out' = summarize_text(call.text, call.ratio, call.min_sentences, STOPWORDS)
  /\ pc' = "returned"
  /\ UNCHANGED <<globals, req, resp, call, earlier>>

NextSum == SummarizeCall

SpecSum == InitSum /\ [][NextSum]_vars

(***************************************************************************)
(* paraphrase_text as a program of its own: one call on drawn arguments    *)
(***************************************************************************)
MaxParaSentences == 2

\* "Get,  .", "NASA!", "going?", "x."
ParaSentenceVocab ==
  { <<"G","e","t",","," "," ",".">>, <<"N","A","S","A","!">>,
    <<"g","o","i","n","g","?">>, <<"x",".">> }

ParaphraseTexts == {Join(<<" ">>, q) : q \in SeqsUpTo(ParaSentenceVocab, MaxParaSentences)}

Strengths == {Finite(-1, 2), Finite(0, 1), Finite(3, 10), Finite(1, 1), NaN}

InitPara ==
  /\ STOPWORDS = StopWordList
  /\ FALLBACK_SYNS = FallbackSynDict
  /\ USE_NLTK \in BOOLEAN
  /\ pc = "call"
  /\ req = NoRequest
  /\ resp = NoResponse
  /\ \E text \in ParaphraseTexts, strength \in Strengths :
       call = [fn |-> "paraphrase_text", text |-> text, strength |-> strength]
  /\ out = NoOut
  /\ earlier = <<>>

ParaphraseCall ==
  /\ pc = "call"
  /\ call.fn = "paraphrase_text"
  /\ \E o \in paraphrase_text(call.text, call.strength, FALLBACK_SYNS, USE_NLTK) :
       out' = o
  /\ pc' = "returned"
  /\ UNCHANGED <<globals, req, resp, call, earlier>>

NextPara == ParaphraseCall

SpecPara == InitPara /\ [][NextPara]_vars

(***************************************************************************)
(* The HTTP handlers                                                       *)
(***************************************************************************)
\* A JSON value of the payload, or the absence of its key
Absent == [kind |-> "absent", num |-> Zero, chars |-> <<>>]

JNull == [kind |-> "null", num |-> Zero, chars |-> <<>>]

JNumber(x) == [kind |-> "number", num |-> x, chars |-> <<>>]

JString(chars) == [kind |-> "string", num |-> Zero, chars |-> chars]

DigitList == <<"0","1","2","3","4","5","6","7","8","9">>

DigitValue(c) == (CHOOSE i \in DOMAIN DigitList : DigitList[i] = c) - 1

IsDigits(s) == s # <<>> /\ \A i \in DOMAIN s : s[i] \in Range(DigitList)

RECURSIVE DigitsValue(_)
DigitsValue(s) ==
  IF s = <<>> THEN 0
  ELSE 10 * DigitsValue(SubSeq(s, 1, Len(s) - 1)) + DigitValue(s[Len(s)])

RECURSIVE Pow10(_)
Pow10(k) == IF k = 0 THEN 1 ELSE 10 * Pow10(k - 1)

Converted(x) == [ok |-> TRUE, val |-> x]

\* the conversion raised ValueError, TypeError or AttributeError
Raised == [ok |-> FALSE, val |-> Zero]

\* the sign of a numeral and the rest of it
Signed(s) ==
  IF s # <<>> /\ Head(s) \in {"+", "-"}
  THEN [neg |-> Head(s) = "-", rest |-> Tail(s)]
  ELSE [neg |-> FALSE, rest |-> s]

\* float(s) for a str: "nan" and the decimal numerals (the exponent and
\* infinity forms are not among the payloads drawn)
ParseFloat(chars) ==
  LET s    == Signed(Strip(chars))
      dots == {i \in DOMAIN s.rest : s.rest[i] = "."}
      sign == IF s.neg THEN -1 ELSE 1
  IN  IF Lower(s.rest) = <<"n","a","n">> THEN Converted(NaN)
      ELSE IF IsDigits(s.rest) THEN Converted(Finite(sign * DigitsValue(s.rest), 1))
      ELSE IF Cardinality(dots) = 1
      THEN LET dot   == CHOOSE i \in dots : TRUE
               whole == SubSeq(s.rest, 1, dot - 1)
               frac  == SubSeq(s.rest, dot + 1, Len(s.rest))
           IN  IF (whole = <<>> \/ IsDigits(whole)) /\ (frac = <<>> \/ IsDigits(frac))
                  /\ whole \o frac # <<>>
               THEN Converted(Finite(sign * DigitsValue(whole \o frac), Pow10(Len(frac))))
               ELSE Raised
      ELSE Raised

\* float(data.get(key, default))
ToFloat(v, default) ==
  CASE v.kind = "absent" -> Converted(default)
    [] v.kind = "number" -> Converted(v.num)
    [] v.kind = "string" -> ParseFloat(v.chars)
    [] OTHER             -> Raised

\* int(x) for a float: towards zero; int(nan) raises
TruncFloat(x) ==
  IF ~x.fin THEN Raised
  ELSE Converted(IF x.n >= 0 THEN x.n \div x.d ELSE -((-x.n) \div x.d))

\* int(data.get(key, default))
ToInt(v, default) ==
  CASE v.kind = "absent" -> Converted(default)
    [] v.kind = "number" -> TruncFloat(v.num)
    [] v.kind = "string" ->
         LET s == Signed(Strip(v.chars))
         IN  IF IsDigits(s.rest)
             THEN Converted((IF s.neg THEN -1 ELSE 1) * DigitsValue(s.rest))
             ELSE Raised
    [] OTHER             -> Raised

\* data.get('text', '') without the strip
GetTextUnstripped(v) ==
  CASE v.kind = "absent" -> Converted(<<>>)
    [] v.kind = "string" -> Converted(v.chars)
    [] OTHER             -> Raised

\* lines 157 and 169: data.get('text', '').strip(); only a str has strip
GetText(v) ==
  CASE v.kind = "absent" -> Converted(<<>>)
    [] v.kind = "string" -> Converted(Strip(v.chars))
    [] OTHER             -> Raised

NoFields == [text |-> Absent, ratio |-> Absent, min_sentences |-> Absent, strength |-> Absent]

\* lines 156 and 168: request.json or {}.  The body is a JSON object
\* ("object"), a falsy JSON value such as null ("null"), or a truthy value
\* that is no object, such as [1] ("array"), which has no get.
PayloadDict(json) ==
  CASE json.kind = "object" -> Converted(json.fields)
    [] json.kind = "null"   -> Converted(NoFields)
    [] OTHER                -> Raised

DefaultRatio == Finite(3, 10)

DefaultStrength == Finite(3, 10)

DefaultMinSentences == 1

\* jsonify({"ok": False, "error": "No text provided."}), 400
NoTextResponse ==
  [status |-> 400, json |-> TRUE, body |-> [ok |-> FALSE, error |-> "No text provided."]]

\* an exception leaves the handler, and Flask answers 500 without a JSON body
ErrorResponse == [status |-> 500, json |-> FALSE, body |-> [ok |-> FALSE]]

Handled(r, c, o) == [resp |-> r, call |-> c, out |-> o]

\* lines 156-164: the response of api_summarize, and the summarize_text call
\* it makes, if any
api_summarize(json, stop) ==
  LET data == PayloadDict(json)
  IN  IF ~data.ok THEN Handled(ErrorResponse, NoCall, NoOut)
      ELSE
      LET text          == GetText(data.val.text)
          ratio         == ToFloat(data.val.ratio, DefaultRatio)
          min_sentences == ToInt(data.val.min_sentences, DefaultMinSentences)
      IN  IF ~text.ok \/ ~ratio.ok \/ ~min_sentences.ok
          THEN Handled(ErrorResponse, NoCall, NoOut)
          ELSE IF text.val = <<>> THEN Handled(NoTextResponse, NoCall, NoOut)
          ELSE
          LET args    == [fn |-> "summarize_text", text |-> text.val,
                          ratio |-> ratio.val, min_sentences |-> min_sentences.val]
              locals  == summarize_text(text.val, ratio.val, min_sentences.val, stop)
          IN  IF locals.raised THEN Handled(ErrorResponse, args, locals)
              ELSE Handled([status |-> 200, json |-> TRUE,
                            body |-> [ok |-> TRUE,
                                      summary |-> Join(<<" ">>, locals.ret),
                                      sentences |-> locals.ret]],
                           args, locals)

\* lines 168-174: every response of api_paraphrase, with the paraphrase_text
\* call it makes, if any
api_paraphrase(json, syns, use_nltk) ==
  LET data == PayloadDict(json)
  IN  IF ~data.ok THEN {Handled(ErrorResponse, NoCall, NoOut)}
      ELSE
      LET text     == GetText(data.val.text)
          strength == ToFloat(data.val.strength, DefaultStrength)
      IN  IF ~text.ok \/ ~strength.ok THEN {Handled(ErrorResponse, NoCall, NoOut)}
          ELSE IF text.val = <<>> THEN {Handled(NoTextResponse, NoCall, NoOut)}
          ELSE {Handled([status |-> 200, json |-> TRUE,
                         body |-> [ok |-> TRUE, paraphrase |-> o.ret]],
                        [fn |-> "paraphrase_text", text |-> text.val,
                         strength |-> strength.val],
                        o) :
                  o \in paraphrase_text(text.val, strength.val, syns, use_nltk)}

\* STOPWORDS after a summarize_text call: line 60 only reads it
StopwordsLearned(stop, text) == stop \cup Range(FindWords(Lower(text)))

StopwordsAfter(stop, text) == stop

(***************************************************************************)
(* The server: requests arrive one at a time                               *)
(***************************************************************************)
\* "", " \n", " x. x. a", "going. X  x!", and a number
TextValues ==
  { Absent, JString(<<>>), JString(<<" ", "\n">>),
    JString(<<" ","x","."," ","x","."," ","a">>),
    JString(<<"g","o","i","n","g","."," ","X"," "," ","x","!">>),
    JNumber(Finite(1, 1)) }

\* 1, nan, "0.5", "abc"
RatioValues ==
  {Absent, JNumber(Finite(1, 1)), JNumber(NaN), JString(<<"0",".","5">>),
   JString(<<"a","b","c">>)}

\* 2.5, "1.5"
MinSentencesValues == {Absent, JNumber(Finite(5, 2)), JString(<<"1",".","5">>)}

\* 0, " 1", null
StrengthValues == {Absent, JNumber(Finite(0, 1)), JString(<<" ","1">>), JNull}

SummarizePayloads ==
  {[kind |-> "null", fields |-> NoFields], [kind |-> "array", fields |-> NoFields]}
    \cup {[kind |-> "object",
           fields |-> [text |-> t, ratio |-> r, min_sentences |-> m, strength |-> Absent]] :
            t \in TextValues, r \in RatioValues, m \in MinSentencesValues}

ParaphrasePayloads ==
  {[kind |-> "null", fields |-> NoFields], [kind |-> "array", fields |-> NoFields]}
    \cup {[kind |-> "object",
           fields |-> [text |-> t, ratio |-> Absent, min_sentences |-> Absent,
                       strength |-> x]] :
            t \in TextValues, x \in StrengthValues}

Init ==
  /\ STOPWORDS = StopWordList
  /\ FALLBACK_SYNS = FallbackSynDict
  /\ USE_NLTK \in BOOLEAN
  /\ pc = "idle"
  /\ req = NoRequest
  /\ resp = NoResponse
  /\ call = NoCall
  /\ out = NoOut
  /\ earlier = <<>>

\* a POST arrives and is routed
PostSummarize ==
  /\ pc = "idle"
  /\ \E json \in SummarizePayloads : req' = [route |-> "/summarize", json |-> json]
  /\ pc' = "handling"
  /\ UNCHANGED <<globals, resp, call, out, earlier>>

PostParaphrase ==
  /\ pc = "idle"
  /\ \E json \in ParaphrasePayloads : req' = [route |-> "/paraphrase", json |-> json]
  /\ pc' = "handling"
  /\ UNCHANGED <<globals, resp, call, out, earlier>>

ApiSummarize ==
  /\ pc = "handling"
  /\ req.route = "/summarize"
  /\ LET h == api_summarize(req.json, STOPWORDS)
     IN  /\ resp' = h.resp
         /\ call' = h.call
         /\ out' = h.out
         /\ STOPWORDS' = IF h.call = NoCall THEN STOPWORDS
                         ELSE StopwordsAfter(STOPWORDS, h.call.text)
  /\ pc' = "responded"
  /\ UNCHANGED <<FALLBACK_SYNS, USE_NLTK, req, earlier>>

ApiParaphrase ==
  /\ pc = "handling"
  /\ req.route = "/paraphrase"
  /\ \E h \in api_paraphrase(req.json, FALLBACK_SYNS, USE_NLTK) :
       /\ resp' = h.resp
       /\ call' = h.call
       /\ out' = h.out
  /\ pc' = "responded"
  /\ earlier' = [i \in DOMAIN earlier |-> [earlier[i] EXCEPT !.paraphrased_since = TRUE]]
  /\ UNCHANGED <<globals, req>>

\* the response is sent; the request's objects are gone
Respond ==
  /\ pc = "responded"
  /\ pc' = "idle"
  /\ req' = NoRequest
  /\ resp' = NoResponse
  /\ call' = NoCall
  /\ out' = NoOut
  /\ UNCHANGED <<globals, earlier>>

\* the same, and the summarize_text call of the request is remembered
RespondRemember ==
  /\ pc = "responded"
  /\ call.fn = "summarize_text"
  /\ earlier' = <<[args |-> call, raised |-> out.raised, ret |-> out.ret,
                   paraphrased_since |-> FALSE]>>
  /\ pc' = "idle"
  /\ req' = NoRequest
  /\ resp' = NoResponse
  /\ call' = NoCall
  /\ out' = NoOut
  /\ UNCHANGED globals

Next ==
  \/ PostSummarize
  \/ PostParaphrase
  \/ ApiSummarize
  \/ ApiParaphrase
  \/ Respond
  \/ RespondRemember

Spec == Init /\ [][Next]_vars

(***************************************************************************)
(* Properties of summarize_text                                            *)
(***************************************************************************)
\* the call returned a list
Returned == pc = "returned" /\ call.fn = "summarize_text" /\ ~out.raised

\* the call returned from line 88, not from line 54
ReturnedTop == Returned /\ ~out.early

RECURSIVE IsSubsequence(_, _)
IsSubsequence(a, b) ==
  IF a = <<>> THEN TRUE
  ELSE IF b = <<>> THEN FALSE
  ELSE IF Head(a) = Head(b) THEN IsSubsequence(Tail(a), Tail(b))
  ELSE IsSubsequence(a, Tail(b))

\* C1: the list summarize_text returns is a subsequence of
\* split_sentences(text): sentences of the text, unmodified, in text order.
C1_OrderPreservingSubsequence ==
  Returned => IsSubsequence(out.ret, split_sentences(call.text))

\* a summary of two different sentences that skips a sentence between them
C1_Witness ==
  /\ ReturnedTop
  /\ Len(out.sentences) = 3
  /\ out.ret = <<out.sentences[1], out.sentences[3]>>
  /\ out.sentences[1] # out.sentences[3]
  /\ out.sentences[2] \notin Range(out.ret)

\* C2, for a ratio >= 0 and a min_sentences >= 0: with more sentences than
\* min_sentences, the summary has exactly
\* k = min(n, max(min_sentences, ceil(n * ratio))) sentences.
C2_ExactlyK ==
  Returned /\ call.ratio.n >= 0 /\ call.min_sentences >= 0
    /\ Len(split_sentences(call.text)) > call.min_sentences
    => LET n == Len(split_sentences(call.text))
       IN  Len(out.ret) = Min(n, Max(call.min_sentences, CeilTimes(n, call.ratio)))

\* sentence i of the text is in the summary
Included(i) == out.sentences[i] \in Range(out.ret)

ScoreAt(i) == out.sent_scores[i][2]

\* C3: the summary holds the top-scoring sentences: no sentence left out
\* scores strictly higher than one included, and of two sentences with equal
\* score the later is included only if the earlier is.
C3_TopScoring ==
  ReturnedTop
    => /\ \A i, j \in DOMAIN out.sentences :
            Included(j) /\ ~Included(i) => ~ScoreLess(ScoreAt(j), ScoreAt(i))
       /\ \A i, j \in DOMAIN out.sentences :
            i < j /\ ScoreEq(ScoreAt(i), ScoreAt(j)) /\ Included(j) => Included(i)

Occurrences(w, words) == Cardinality({i \in DOMAIN words : words[i] = w})

\* count(w) / max count for every lower-cased word token w of text that is
\* no stopword
FrequencyTable(text) ==
  LET words   == FindWords(Lower(text))
      counted == {w \in Range(words) : w \notin StopWordList}
      count   == [w \in counted |-> Occurrences(w, words)]
      most    == CHOOSE m \in Range(count) : \A w \in counted : count[w] <= m
  IN  [w \in counted |-> Rat(count[w], most)]

\* the sum of table's values over words, 0 for a word not in it
RECURSIVE FrequencySum(_, _)
FrequencySum(words, table) ==
  IF words = <<>> THEN Zero
  ELSE RatAdd(IF Head(words) \in DOMAIN table THEN table[Head(words)] ELSE Zero,
              FrequencySum(Tail(words), table))

SentenceWords(i) == FindWords(Lower(out.sentences[i]))

\* C4 as stated: the score of a sentence is the sum of its words' normalized
\* frequencies divided by the number of its word tokens, and 0 without words.
C4_ScoreDividedByLength ==
  ReturnedTop
    => LET table == FrequencyTable(call.text)
       IN  \A i \in DOMAIN out.sentences :
             LET words == SentenceWords(i)
                 n     == Len(words)
             IN  ScoreEq(ScoreAt(i),
                         IF n = 0 THEN [sum |-> Zero, root |-> 1]
                         ELSE [sum |-> FrequencySum(words, table), root |-> n * n])

\* C4 amended: the score of a sentence is the sum of its words' normalized
\* frequencies divided by the square root of the number of its word tokens,
\* and 0 without words.
C4_ScoreDividedBySqrtLength ==
  ReturnedTop
    => LET table == FrequencyTable(call.text)
       IN  \A i \in DOMAIN out.sentences :
             LET words == SentenceWords(i)
                 n     == Len(words)
             IN  ScoreEq(ScoreAt(i),
                         IF n = 0 THEN [sum |-> Zero, root |-> 1]
                         ELSE [sum |-> FrequencySum(words, table), root |-> n])

\* a scored sentence of two word tokens, one of them a stopword, next to a
\* sentence without any counted word
C4_Witness ==
  /\ ReturnedTop
  /\ \E i, j \in DOMAIN out.sentences :
       /\ Len(SentenceWords(i)) = 2
       /\ \E a, b \in 1..2 : SentenceWords(i)[a] \in StopWordList
                               /\ SentenceWords(i)[b] \in DOMAIN out.freqs
       /\ ScoreLess(ScoreAt(j), ScoreAt(i))

\* C5: the frequency table has no stopword as a key, maps every other
\* lower-cased word token w of the text to count(w) / max count, so every
\* value is in (0, 1] and, unless the table is empty, some value is 1.
C5_FrequencyTable ==
  pc = "returned" /\ call.fn = "summarize_text" /\ ~out.early
    => LET table == FrequencyTable(call.text)
       IN  /\ DOMAIN out.freqs \cap STOPWORDS = {}
           /\ DOMAIN out.freqs = DOMAIN table
           /\ \A w \in DOMAIN out.freqs :
                /\ out.freqs[w] = table[w]
                /\ 0 < out.freqs[w].n
                /\ out.freqs[w].n <= out.freqs[w].d
           /\ DOMAIN out.freqs # {}
                => \E w \in DOMAIN out.freqs : out.freqs[w] = Rat(1, 1)

\* a table of two words of different frequency, from a text with a stopword
C5_Witness ==
  /\ ReturnedTop
  /\ \E v, w \in DOMAIN out.freqs : RatLess(out.freqs[v], out.freqs[w])
  /\ \E w \in Range(FindWords(Lower(call.text))) : w \in STOPWORDS

(***************************************************************************)
(* Properties of paraphrase_text                                           *)
(***************************************************************************)
ParaReturned == pc = "returned" /\ call.fn = "paraphrase_text"

C9_UnreplacedWordUnchanged ==
  ParaReturned
    => \A i \in DOMAIN out.traces : \A j \in DOMAIN out.traces[i] :
         LET e == out.traces[i][j]
         IN  IsWord(e.t) /\ (~e.selected \/ e.candidate = Lower(e.t)) => e.emitted = e.t

\* C10: with strength <= 0 the return value is the sentences of
\* split_sentences(text), unchanged and in order, joined by single spaces;
\* for every strength it is the join of as many paraphrased sentences as the
\* text has sentences, in an order that differs from the text's only when
\* there is more than one sentence.
C10_StrengthZeroIdentity ==
  ParaReturned
    => LET sentences == split_sentences(call.text)
           n         == Len(sentences)
       IN  /\ call.strength.fin /\ call.strength.n <= 0
                => out.ret = Join(<<" ">>, sentences)
           /\ Len(out.paraphrased) = n
           /\ out.order \in Orders(n)
           /\ out.ret = Join(<<" ">>, [i \in 1..n |-> out.paraphrased[out.order[i]]])
           /\ out.order # Identity(n) => n > 1

\* a call with strength 0 on two different sentences, one with a word of
\* the thesaurus
C10_Witness ==
  /\ ParaReturned
  /\ call.strength = Finite(0, 1)
  /\ Len(out.sentences) = 2
  /\ out.sentences[1] # out.sentences[2]
  /\ \E j \in DOMAIN out.traces[1] : Lower(out.traces[1][j].t) \in DOMAIN FALLBACK_SYNS

(***************************************************************************)
(* Properties of the handlers                                              *)
(***************************************************************************)
\* the payload has no text, or a text that is empty or only whitespace
TextBlank ==
  \/ req.json.kind = "null"
  \/ /\ req.json.kind = "object"
     /\ \/ req.json.fields.text.kind = "absent"
        \/ /\ req.json.fields.text.kind = "string"
           /\ \A i \in DOMAIN req.json.fields.text.chars :
                IsSpace(req.json.fields.text.chars[i])

TextNonBlank ==
  /\ req.json.kind = "object"
  /\ req.json.fields.text.kind = "string"
  /\ \E i \in DOMAIN req.json.fields.text.chars : ~IsSpace(req.json.fields.text.chars[i])

\* C7 as stated: blank text is answered 400 with the error body and nothing
\* is invoked, whatever the other fields are; non-blank text is answered
\* with ok: true.
C7_BlankTextRejected ==
  pc = "responded"
    => /\ TextBlank => resp = NoTextResponse /\ call = NoCall
       /\ TextNonBlank => resp.json /\ resp.body.ok

\* the numeric fields the route reads are absent or convert
NumbersConvert ==
  IF req.route = "/summarize"
  THEN /\ ToFloat(req.json.fields.ratio, DefaultRatio).ok
       /\ ToInt(req.json.fields.min_sentences, DefaultMinSentences).ok
  ELSE ToFloat(req.json.fields.strength, DefaultStrength).ok

RatioIsNumber ==
  req.route = "/summarize" => ToFloat(req.json.fields.ratio, DefaultRatio).val.fin

\* C7 amended: when the numeric fields the route reads (ratio and
\* min_sentences, or strength) are absent or convert with float() and int(),
\* blank text is answered 400 with the error body and nothing is invoked,
\* and non-blank text is answered 200 with ok: true after the call, provided
\* the ratio is not nan.
C7_BlankTextRejectedWhenNumbersConvert ==
  pc = "responded" /\ NumbersConvert
    => /\ TextBlank => resp = NoTextResponse /\ call = NoCall
       /\ TextNonBlank /\ RatioIsNumber
            => resp.status = 200 /\ resp.json /\ resp.body.ok /\ call # NoCall

\* a whitespace-only text sent with a ratio and a min_sentences is refused
C7_Witness ==
  /\ pc = "responded"
  /\ req.route = "/summarize"
  /\ req.json.kind = "object"
  /\ req.json.fields.text = JString(<<" ", "\n">>)
  /\ req.json.fields.ratio.kind = "string"
  /\ req.json.fields.min_sentences.kind = "number"
  /\ resp = NoTextResponse

\* the call of this request has the arguments of the remembered call
RepeatsEarlier ==
  /\ pc = "responded"
  /\ call.fn = "summarize_text"
  /\ earlier # <<>>
  /\ earlier[1].args = call

SameAsEarlier ==
  RepeatsEarlier => out.raised = earlier[1].raised /\ out.ret = earlier[1].ret

====
